---- MODULE Spec2Model ----
(***************************************************************************)
(* FASTQ streaming parsers of flying-sheep/fastq-comparison.               *)
(*                                                                         *)
(*   fancy_parser::FastqReader    the descriptive iterator                 *)
(*   unfancy_parser::Reader       the strict 4-line reader                 *)
(*   unfancy_parser::Records      the strict iterator over Reader::read    *)
(*   Record::check of both        the validity check                       *)
(*                                                                         *)
(* A stream is a finite sequence of bytes (0..255) and a cursor `pos`, the *)
(* number of bytes already consumed.  Strings are sequences of bytes, so   *)
(* String::len is Len.  A panic (failed assert!, unwrap of None, overflow  *)
(* check, slice out of range) is an outcome of kind "Panic".               *)
(***************************************************************************)
EXTENDS Integers, Sequences, FiniteSets, TLC

VARIABLES
    input,      \* the bytes of the underlying stream (fixed once constructed)
    variant,    \* "fancy" = FastqReader(input), "strict" = Reader::new(input).records()
    pos,        \* stream cursor: bytes consumed so far
    sep_line,   \* Reader.sep_line, the strict reader's separator buffer
    item,       \* what the latest next() call returned ("Start" before any call)
    out,        \* every item returned so far, in order
    chk,        \* result of the latest Record::check on the latest Ok record
    rt          \* the latest Ok record written with Display and parsed again (done = FALSE before)

vars == <<input, variant, pos, sep_line, item, out, chk, rt>>

(***************************************************************************)
(* Bytes.                                                                  *)
(***************************************************************************)
AT   == 64      \* b'@'
PLUS == 43      \* '+'
NL   == 10      \* '\n'
SP   == 32      \* ' '

\* "<nothing>"
NOTHING == <<60, 110, 111, 116, 104, 105, 110, 103, 62>>

\* char::is_whitespace on the one-byte characters.
IsWhitespace(b) == b \in {9, 10, 11, 12, 13, 32}

\* A UTF-8 continuation byte.
IsCont(b) == b \in 128..191

\* str::is_ascii
IsAscii(s) == \A i \in 1..Len(s) : s[i] < 128

\* core::str::from_utf8(..).is_ok(), for one- and two-byte characters (every
\* byte of the modelled streams is below 0xE0).
RECURSIVE Utf8From(_, _)
Utf8From(s, i) ==
    IF i > Len(s) THEN TRUE
    ELSE IF s[i] < 128 THEN Utf8From(s, i + 1)
    ELSE IF s[i] \in 194..223 /\ i < Len(s) /\ IsCont(s[i + 1]) THEN Utf8From(s, i + 2)
    ELSE FALSE

Utf8Valid(s) == Utf8From(s, 1)

Last(s) == s[Len(s)]

(***************************************************************************)
(* The line source: BufRead::read_line on an in-memory stream.             *)
(***************************************************************************)
\* Index of the last byte of the line starting after cursor p: the first NL,
\* or the end of the stream.
RECURSIVE LineEndFrom(_, _)
LineEndFrom(s, i) ==
    IF i >= Len(s) THEN Len(s)
    ELSE IF s[i] = NL THEN i
    ELSE LineEndFrom(s, i + 1)

\* read_line(&mut buf) with an empty buf: consumes through the terminator (or to
\* the end of the stream); the bytes reach buf only when they are valid UTF-8,
\* otherwise the call fails with InvalidData and buf stays empty.
ReadLine(s, p) ==
    LET e   == IF p >= Len(s) THEN p ELSE LineEndFrom(s, p + 1)
        raw == SubSeq(s, p + 1, e)
    IN  IF Utf8Valid(raw)
        THEN [ok |-> TRUE,  line |-> raw,  pos |-> e]
        ELSE [ok |-> FALSE, line |-> <<>>, pos |-> e]

(***************************************************************************)
(* fancy_parser: items of FastqReader::next.                               *)
(***************************************************************************)
None == <<>>
Some(x) == <<x>>

from_strings(id, desc, seq, qual) == [id |-> id, desc |-> desc, seq |-> seq, qual |-> qual]

NoneItem == [kind |-> "None"]
OkItem(r) == [kind |-> "Ok", rec |-> r]
NoAt(b) == [kind |-> "NoAt", byte |-> b]
NoPlus(prev, b) == [kind |-> "NoPlus", prev |-> prev, byte |-> b]
Incomplete(prev) == [kind |-> "Incomplete", prev |-> prev]
LengthMismatch(a, b) == [kind |-> "LengthMismatch", a |-> a, b |-> b]
IoItem == [kind |-> "Io"]
Panic(why) == [kind |-> "Panic", why |-> why]

\* read_line_without_nl dropping a failure of the stream: the line counts as
\* missing.
read_line_without_nl_swallow(s, p, prev) ==
    LET rl == ReadLine(s, p)
    IN  IF ~rl.ok \/ Len(rl.line) <= 1
            THEN [res |-> "Err", item |-> Incomplete(prev), pos |-> rl.pos]
        ELSE IF Last(rl.line) # NL
            THEN [res |-> "Err", item |-> Panic("assert ends_with newline"), pos |-> rl.pos]
        ELSE [res |-> "Ok", line |-> SubSeq(rl.line, 1, Len(rl.line) - 1), pos |-> rl.pos]

\* read_line_without_nl(r, f): prev is the value of f().
read_line_without_nl(s, p, prev) ==
    LET rl == ReadLine(s, p)
    IN  IF ~rl.ok THEN [res |-> "Err", item |-> IoItem, pos |-> rl.pos]
        ELSE IF Len(rl.line) <= 1
            THEN [res |-> "Err", item |-> Incomplete(prev), pos |-> rl.pos]
        ELSE IF Last(rl.line) # NL
            THEN [res |-> "Err", item |-> Panic("assert ends_with newline"), pos |-> rl.pos]
        ELSE [res |-> "Ok", line |-> SubSeq(rl.line, 1, Len(rl.line) - 1), pos |-> rl.pos]

\* header.split_whitespace().next_back(): the last maximal run of
\* non-whitespace bytes, None when there is none.
TokEnd(h) ==
    LET I == {i \in 1..Len(h) : ~IsWhitespace(h[i])}
    IN  IF I = {} THEN 0 ELSE CHOOSE i \in I : \A j \in I : j <= i

TokStart(h) ==
    LET e == TokEnd(h)
        J == {j \in 1..e : \A k \in j..e : ~IsWhitespace(h[k])}
    IN  CHOOSE j \in J : \A k \in J : j <= k

LastToken(h) ==
    IF TokEnd(h) = 0 THEN None ELSE Some(SubSeq(h, TokStart(h), TokEnd(h)))

\* String::is_char_boundary
IsCharBoundary(h, n) == n = 0 \/ n = Len(h) \/ (n < Len(h) /\ ~IsCont(h[n + 1]))

\* if let Some(ref desc) = desc { let l = header.len(); header.truncate(l - desc.len() - 1) }
\* The possible values of header afterwards, or a panic.  l - desc.len() - 1 is
\* usize arithmetic: below zero it panics where overflow checks are compiled in
\* and wraps to a length above l (truncate is then a no-op) where they are not.
TruncateHeader(h, desc) ==
    IF desc = None THEN {[res |-> "Ok", header |-> h]}
    ELSE LET n == Len(h) - Len(desc[1]) - 1
         IN  IF n < 0
                 THEN {[res |-> "Panic", why |-> "subtract with overflow"],
                       [res |-> "Ok", header |-> h]}
             ELSE IF ~IsCharBoundary(h, n)
                 THEN {[res |-> "Panic", why |-> "not a char boundary"]}
             ELSE {[res |-> "Ok", header |-> SubSeq(h, 1, n)]}

\* The separator step and everything after it, header and seq being known.
SeparatorStep(s, p, header, desc, seq) ==
    LET qh == ReadLine(s, p)
    IN  IF ~qh.ok THEN [item |-> IoItem, pos |-> qh.pos]
        ELSE IF qh.line = <<>>
            THEN [item |-> Panic("unwrap on None"), pos |-> qh.pos]
        ELSE IF qh.line[1] # PLUS
            THEN [item |-> NoPlus(<<AT>> \o header \o <<NL>> \o seq, qh.line[1]),
                  pos |-> qh.pos]
        ELSE LET q == read_line_without_nl(s, qh.pos,
                        <<AT>> \o header \o <<NL>> \o seq \o <<NL, PLUS, NL>> \o NOTHING)
             IN  IF q.res = "Err" THEN [item |-> q.item, pos |-> q.pos]
                 ELSE IF Len(seq) = Len(q.line)
                     THEN [item |-> OkItem(from_strings(header, desc, seq, q.line)),
                           pos |-> q.pos]
                 ELSE [item |-> LengthMismatch(seq, q.line), pos |-> q.pos]

\* The sequence step and everything after it, the split header being known.
SequenceStep(s, p, header, desc) ==
    LET sq == read_line_without_nl(s, p,
                  <<AT>> \o header \o <<NL>> \o NOTHING \o <<NL, PLUS, NL>> \o NOTHING)
    IN  IF sq.res = "Err" THEN [item |-> sq.item, pos |-> sq.pos]
        ELSE SeparatorStep(s, sq.pos, header, desc, sq.line)

\* The header step and everything after it, the marker byte being consumed:
\* the set of (item, cursor) outcomes.
HeaderStep(s, p) ==
    LET h == read_line_without_nl(s, p, <<AT>> \o NOTHING)
    IN  IF h.res = "Err" THEN {[item |-> h.item, pos |-> h.pos]}
        ELSE LET desc == LastToken(h.line)
             IN  { IF t.res = "Panic"
                       THEN [item |-> Panic(t.why), pos |-> h.pos]
                       ELSE SequenceStep(s, h.pos, t.header, desc)
                   : t \in TruncateHeader(h.line, desc) }

\* FastqReader::next peeking at the marker byte instead of reading it: a wrong
\* byte stays in the stream.
FastqReaderNextPeek(s, p) ==
    IF p >= Len(s) THEN {[item |-> NoneItem, pos |-> p]}
    ELSE IF s[p + 1] # AT THEN {[item |-> NoAt(s[p + 1]), pos |-> p]}
    ELSE HeaderStep(s, p + 1)

\* FastqReader::next taking a blank line for the end of the records.
FastqReaderNextBlankEnds(s, p) ==
    IF p >= Len(s) \/ s[p + 1] = NL THEN {[item |-> NoneItem, pos |-> p]}
    ELSE IF s[p + 1] # AT THEN {[item |-> NoAt(s[p + 1]), pos |-> p + 1]}
    ELSE HeaderStep(s, p + 1)

\* FastqReader::next taking the end of the stream for a record cut short.
FastqReaderNextEofIncomplete(s, p) ==
    IF p >= Len(s) THEN {[item |-> Incomplete(<<AT>> \o NOTHING), pos |-> p]}
    ELSE IF s[p + 1] # AT THEN {[item |-> NoAt(s[p + 1]), pos |-> p + 1]}
    ELSE HeaderStep(s, p + 1)

\* FastqReader::next: the set of (item, cursor) outcomes of one call at cursor p.
FastqReaderNext(s, p) ==
    IF p >= Len(s) THEN {[item |-> NoneItem, pos |-> p]}
    ELSE IF s[p + 1] # AT THEN {[item |-> NoAt(s[p + 1]), pos |-> p + 1]}
    ELSE HeaderStep(s, p + 1)

\* fancy_parser Record::check
FancyCheck(r) ==
    IF r.id # <<>> THEN "Expecting id for FastQ record."
    ELSE IF ~IsAscii(r.seq) THEN "Non-ascii character found in sequence."
    ELSE IF ~IsAscii(r.qual) THEN "Non-ascii character found in qualities."
    ELSE IF Len(r.seq) # Len(r.qual) THEN "Unequal length of sequence an qualities."
    ELSE "Ok"

(***************************************************************************)
(* unfancy_parser: Reader::read, the Record accessors, Records::next.      *)
(***************************************************************************)
\* Record::new
StrictNew == [header |-> <<>>, seq |-> <<>>, qual |-> <<>>]

\* Record::is_empty
StrictIsEmpty(r) == r.header = <<>> /\ r.seq = <<>> /\ r.qual = <<>>

\* Reader::read testing the sequence line, not the quality line, for the end of
\* the stream.
ReaderReadSeqTest(s, p, sep) ==
    LET h  == ReadLine(s, p)
        sq == ReadLine(s, h.pos)
        sl == ReadLine(s, sq.pos)
        q  == ReadLine(s, sl.pos)
        r1 == [StrictNew EXCEPT !.header = h.line]
        r2 == [r1 EXCEPT !.seq = sq.line]
    IN  IF ~h.ok
            THEN [res |-> "Io", rec |-> StrictNew, pos |-> h.pos, sep_line |-> sep]
        ELSE IF h.line = <<>>
            THEN [res |-> "Ok", rec |-> StrictNew, pos |-> h.pos, sep_line |-> sep]
        ELSE IF h.line[1] # AT
            THEN [res |-> "MissingStartMarker", rec |-> r1, pos |-> h.pos, sep_line |-> sep]
        ELSE IF ~sq.ok
            THEN [res |-> "Io", rec |-> r1, pos |-> sq.pos, sep_line |-> sep]
        ELSE IF ~sl.ok
            THEN [res |-> "Io", rec |-> r2, pos |-> sl.pos, sep_line |-> sep]
        ELSE IF ~q.ok
            THEN [res |-> "Io", rec |-> r2, pos |-> q.pos, sep_line |-> sep \o sl.line]
        ELSE IF sq.line = <<>>
            THEN [res |-> "IncompleteRecord", rec |-> r2, pos |-> q.pos,
                  sep_line |-> sep \o sl.line]
        ELSE [res |-> "Ok", rec |-> [r2 EXCEPT !.qual = q.line], pos |-> q.pos,
              sep_line |-> sep \o sl.line]

\* Reader::read(&mut record): record.clear(), then up to four read_line calls.
\* sep is Reader.sep_line on entry; read_line appends to it.
ReaderRead(s, p, sep) ==
    LET h == ReadLine(s, p)
    IN  IF ~h.ok
            THEN [res |-> "Io", rec |-> StrictNew, pos |-> h.pos, sep_line |-> sep]
        ELSE IF h.line = <<>>
            THEN [res |-> "Ok", rec |-> StrictNew, pos |-> h.pos, sep_line |-> sep]
        ELSE IF h.line[1] # AT
            THEN [res |-> "MissingStartMarker", rec |-> [StrictNew EXCEPT !.header = h.line],
                  pos |-> h.pos, sep_line |-> sep]
        ELSE LET sq == ReadLine(s, h.pos)
                 r1 == [StrictNew EXCEPT !.header = h.line]
             IN  IF ~sq.ok
                     THEN [res |-> "Io", rec |-> r1, pos |-> sq.pos, sep_line |-> sep]
                 ELSE LET sl == ReadLine(s, sq.pos)
                          r2 == [r1 EXCEPT !.seq = sq.line]
                      IN  IF ~sl.ok
                              THEN [res |-> "Io", rec |-> r2, pos |-> sl.pos, sep_line |-> sep]
                          ELSE LET q  == ReadLine(s, sl.pos)
                                   s2 == sep \o sl.line
                               IN  IF ~q.ok
                                       THEN [res |-> "Io", rec |-> r2, pos |-> q.pos,
                                             sep_line |-> s2]
                                   ELSE IF q.line = <<>>
                                       THEN [res |-> "IncompleteRecord", rec |-> r2,
                                             pos |-> q.pos, sep_line |-> s2]
                                   ELSE [res |-> "Ok", rec |-> [r2 EXCEPT !.qual = q.line],
                                         pos |-> q.pos, sep_line |-> s2]

\* str::trim_right
TrimRight(s) == SubSeq(s, 1, TokEnd(s))

\* self.header[1..] panics unless 1 is a char boundary of header.
HeaderSliceOk(r) == Len(r.header) >= 1 /\ IsCharBoundary(r.header, 1)

HeaderTail(r) == TrimRight(SubSeq(r.header, 2, Len(r.header)))

\* Index of the first ' ' of t, 0 when there is none.
FirstSpace(t) ==
    LET I == {i \in 1..Len(t) : t[i] = SP}
    IN  IF I = {} THEN 0 ELSE CHOOSE i \in I : \A j \in I : i <= j

\* Record::id: self.header[1..].trim_right().splitn(2, ' ').next()
StrictId(r) ==
    LET t == HeaderTail(r)
        k == FirstSpace(t)
    IN  IF k = 0 THEN Some(t) ELSE Some(SubSeq(t, 1, k - 1))

\* Record::desc: self.header[1..].trim_right().splitn(2, ' ').skip(1).next()
StrictDesc(r) ==
    LET t == HeaderTail(r)
        k == FirstSpace(t)
    IN  IF k = 0 THEN None ELSE Some(SubSeq(t, k + 1, Len(t)))

\* Record::seq returning the line as read, terminator included.
StrictSeqRaw(r) == r.seq

\* Record::seq, Record::qual
StrictSeq(r) == TrimRight(r.seq)
StrictQual(r) == TrimRight(r.qual)

\* unfancy_parser Record::check
StrictCheck(r) ==
    IF ~HeaderSliceOk(r) THEN "Panic"
    ELSE IF StrictId(r) = None THEN "Expecting id for FastQ record."
    ELSE IF ~IsAscii(r.seq) THEN "Non-ascii character found in sequence."
    ELSE IF ~IsAscii(r.qual) THEN "Non-ascii character found in qualities."
    ELSE IF Len(StrictSeq(r)) # Len(StrictQual(r)) THEN "Unequal length of sequence an qualities."
    ELSE "Ok"

StrictErr(e) == [kind |-> "Err", err |-> e]

\* impl fmt::Display for Record: write!(f, "@{}\n{}\n+\n{}", header, seq, qual)
Display(r) == <<AT>> \o r.header \o <<NL>> \o r.seq \o <<NL, PLUS, NL>> \o r.qual

\* Records::next that gives up on the stream at an error: the rest is drained.
RecordsNextFused(s, p, sep) ==
    LET r == ReaderRead(s, p, sep)
    IN  [item |-> IF r.res = "Ok"
                      THEN (IF StrictIsEmpty(r.rec) THEN NoneItem ELSE OkItem(r.rec))
                      ELSE StrictErr(r.res),
         pos |-> IF r.res = "Ok" THEN r.pos ELSE Len(s), sep_line |-> r.sep_line]

\* Records::next: a fresh record, one Reader::read, an empty record ends iteration.
RecordsNext(s, p, sep) ==
    LET r == ReaderRead(s, p, sep)
    IN  [item |-> IF r.res = "Ok"
                      THEN (IF StrictIsEmpty(r.rec) THEN NoneItem ELSE OkItem(r.rec))
                      ELSE StrictErr(r.res),
         pos |-> r.pos, sep_line |-> r.sep_line]

(***************************************************************************)
(* Streams the readers are constructed on.                                 *)
(***************************************************************************)
MaxLen == 4         \* longest stream of arbitrary bytes
MaxGroups == 2      \* most 4-line groups in a stream made of groups
MaxCalls == 4       \* most next() calls on one reader
MaxJunk == 2        \* most arbitrary bytes in front of a group

\* Bytes of the arbitrary streams: '@' '+' '\n' ' ' 'A' and a lone 0xC3.
Alphabet == {AT, PLUS, NL, SP, 65, 195}

\* Line contents of the streams made of groups.
Headers == {<<114>>, <<114, SP, 100>>, <<114, SP, 100, SP, 101>>}   \* "r"  "r d"  "r d e"
Seqs == {<<65>>, <<65, 67>>, <<195, 169>>}          \* "A"  "AC"  "e-acute"
Seps == {<<PLUS>>, <<45>>}                          \* "+"  "-"
Quals == {<<33>>, <<33, 33>>}                       \* "!"  "!!"

Groups == [hdr : Headers, seq : Seqs, sep : Seps, qual : Quals]

\* The bytes of one group: the wire format of a record.
Render(g) == <<AT>> \o g.hdr \o <<NL>> \o g.seq \o <<NL>> \o g.sep \o <<NL>> \o g.qual \o <<NL>>

RECURSIVE RenderAll(_)
RenderAll(gs) == IF gs = <<>> THEN <<>> ELSE Render(gs[1]) \o RenderAll(SubSeq(gs, 2, Len(gs)))

Strings(n) == UNION {[1..k -> Alphabet] : k \in 0..n}

GroupSeqs(n) == UNION {[1..k -> Groups] : k \in 0..n}

\* Whole groups; a whole group or none followed by a group cut short anywhere
\* and then, or not, by a byte that is no text; a few arbitrary bytes
\* followed by a whole group or none; arbitrary bytes.
Streams ==
    {RenderAll(gs) : gs \in GroupSeqs(MaxGroups)}
    \cup UNION {{RenderAll(gs) \o SubSeq(Render(g), 1, k) \o tl
                    : k \in 0..Len(Render(g)), tl \in {<<>>, <<195>>}}
                : gs \in GroupSeqs(1), g \in Groups}
    \cup {j \o RenderAll(gs) : j \in Strings(MaxJunk), gs \in GroupSeqs(1)}
    \cup Strings(MaxLen)

(***************************************************************************)
(* State machine.                                                          *)
(***************************************************************************)
NoRoundTrip == [done |-> FALSE]

Init ==
    /\ input \in Streams
    /\ variant \in {"fancy", "strict"}
    /\ pos = 0
    /\ sep_line = <<>>
    /\ item = [kind |-> "Start"]
    /\ out = <<>>
    /\ chk = "unchecked"
    /\ rt = NoRoundTrip

CanCall == Len(out) < MaxCalls /\ item.kind # "Panic"

\* FastqReader::next
FancyNext ==
    /\ variant = "fancy"
    /\ CanCall
    /\ \E o \in FastqReaderNext(input, pos) :
          /\ item' = o.item
          /\ pos' = o.pos
          /\ out' = Append(out, o.item)
    /\ chk' = "unchecked"
    /\ rt' = NoRoundTrip
    /\ UNCHANGED <<input, variant, sep_line>>

\* Records::next
StrictNext ==
    /\ variant = "strict"
    /\ CanCall
    /\ LET o == RecordsNext(input, pos, sep_line)
       IN  /\ item' = o.item
           /\ pos' = o.pos
           /\ sep_line' = o.sep_line
           /\ out' = Append(out, o.item)
    /\ chk' = "unchecked"
    /\ rt' = NoRoundTrip
    /\ UNCHANGED <<input, variant>>

\* Record::check on the record the latest call yielded
Check ==
    /\ item.kind = "Ok"
    /\ chk' = IF variant = "fancy" THEN FancyCheck(item.rec) ELSE StrictCheck(item.rec)
    /\ UNCHANGED <<input, variant, pos, sep_line, item, out, rt>>

\* The record the latest strict call yielded is formatted with Display and the
\* text is parsed by a new Reader::new(text).records().
RoundTrip ==
    /\ variant = "strict"
    /\ item.kind = "Ok"
    /\ rt' = [done |-> TRUE, text |-> Display(item.rec),
              again |-> RecordsNext(Display(item.rec), 0, <<>>).item]
    /\ UNCHANGED <<input, variant, pos, sep_line, item, out, chk>>

Next == FancyNext \/ StrictNext \/ Check \/ RoundTrip

Spec == Init /\ [][Next]_vars

TypeOK ==
    /\ pos \in 0..Len(input)
    /\ variant \in {"fancy", "strict"}
    /\ Len(out) <= MaxCalls

(***************************************************************************)
(* Reading of a stream as lines and 4-line groups, independent of the      *)
(* parsers: what the properties below compare the parsers with.            *)
(***************************************************************************)
RECURSIVE LinesFrom(_, _, _)
LinesFrom(s, i, cur) ==
    IF i > Len(s) THEN (IF cur = <<>> THEN <<>> ELSE <<cur>>)
    ELSE IF s[i] = NL THEN <<cur>> \o LinesFrom(s, i + 1, <<>>)
    ELSE LinesFrom(s, i + 1, Append(cur, s[i]))

\* The lines of s, terminators stripped; an unterminated rest is the last line.
SplitLines(s) == LinesFrom(s, 1, <<>>)

Terminated(s) == s = <<>> \/ Last(s) = NL

NoWhitespace(l) == \A i \in 1..Len(l) : ~IsWhitespace(l[i])

\* '@' + id, optionally one space and a description.
WFHeader(l) ==
    /\ Len(l) >= 2
    /\ l[1] = AT
    /\ ~IsWhitespace(l[2])
    /\ ~IsWhitespace(Last(l))
    /\ \A i \in 1..Len(l) - 1 : ~(IsWhitespace(l[i]) /\ IsWhitespace(l[i + 1]))

WFSeq(l) == Len(l) >= 1 /\ NoWhitespace(l)
WFSep(l) == Len(l) >= 1 /\ l[1] = PLUS
WFQual(l, seq) == Len(l) = Len(seq) /\ NoWhitespace(l)

\* The i-th 4-line group of the lines ls.
GroupAt(ls, i) == [hdr |-> ls[4 * i - 3], seq |-> ls[4 * i - 2],
                   sep |-> ls[4 * i - 1], qual |-> ls[4 * i]]

\* The four lines are text.
IsText(g) == Utf8Valid(g.hdr) /\ Utf8Valid(g.seq) /\ Utf8Valid(g.sep) /\ Utf8Valid(g.qual)

WFGroup(g) ==
    IsText(g) /\ WFHeader(g.hdr) /\ WFSeq(g.seq) /\ WFSep(g.sep) /\ WFQual(g.qual, g.seq)

\* Well-formed but for the separator line, which does not begin with '+'.
WrongSepGroup(g) ==
    /\ IsText(g) /\ WFHeader(g.hdr) /\ WFSeq(g.seq) /\ WFQual(g.qual, g.seq)
    /\ Len(g.sep) >= 1 /\ g.sep[1] # PLUS /\ NoWhitespace(g.sep)

NGroups(s) == Len(SplitLines(s)) \div 4

\* s is n >= 0 well-formed groups (the last line with or without terminator).
WellFormedStream(s) ==
    LET ls == SplitLines(s)
    IN  /\ Len(ls) % 4 = 0
        /\ \A i \in 1..(Len(ls) \div 4) : WFGroup(GroupAt(ls, i))

\* The fields a header line stands for: the id runs to the first space, the
\* description is what follows it.
HeaderId(l) ==
    LET k == FirstSpace(l) IN IF k = 0 THEN SubSeq(l, 2, Len(l)) ELSE SubSeq(l, 2, k - 1)

HeaderDesc(l) ==
    LET k == FirstSpace(l) IN IF k = 0 THEN None ELSE Some(SubSeq(l, k + 1, Len(l)))

Fields(g) == [id |-> HeaderId(g.hdr), desc |-> HeaderDesc(g.hdr), seq |-> g.seq, qual |-> g.qual]

\* The fields of a yielded record, through its accessors.
RecFields(v, r) ==
    IF v = "fancy" THEN [id |-> r.id, desc |-> r.desc, seq |-> r.seq, qual |-> r.qual]
    ELSE [id |-> StrictId(r)[1], desc |-> StrictDesc(r), seq |-> StrictSeq(r), qual |-> StrictQual(r)]

\* out so far is what n records and then end of iteration look like.
YieldsGroups(v, s) ==
    LET ls == SplitLines(s)
    IN  \A i \in 1..Len(out) :
            IF i <= NGroups(s)
                THEN out[i].kind = "Ok" /\ RecFields(v, out[i].rec) = Fields(GroupAt(ls, i))
                ELSE out[i] = NoneItem

(***************************************************************************)
(* Properties.                                                             *)
(***************************************************************************)
\* C1: the descriptive iterator, on a stream of n well-formed newline-terminated
\* groups, yields n Ok records in input order whose id, description (absent when
\* the header has none), sequence and quality are the input's, and then None.
C1_FancyYieldsWellFormedGroups ==
    (variant = "fancy" /\ Terminated(input) /\ WellFormedStream(input))
        => YieldsGroups("fancy", input)

EndsWithNL(x) == x # <<>> /\ Last(x) = NL

\* C2: the strict iterator, on a stream of n well-formed groups, yields n Ok
\* records in input order and then None; id() is the text after '@' up to the
\* first whitespace, desc() the header text after it (absent when there is none),
\* seq() and qual() the second and fourth line; and on any stream no accessor of
\* a yielded record returns text ending in a line terminator.
C2_StrictYieldsWellFormedGroups ==
    variant = "strict" =>
        /\ WellFormedStream(input) => YieldsGroups("strict", input)
        /\ \A i \in 1..Len(out) :
               out[i].kind = "Ok" =>
                   LET f == RecFields("strict", out[i].rec)
                   IN  /\ ~EndsWithNL(f.id) /\ ~EndsWithNL(f.seq) /\ ~EndsWithNL(f.qual)
                       /\ f.desc # None => ~EndsWithNL(f.desc[1])

\* Two groups, the first with a description and the second without and lacking
\* the final terminator, have been yielded and iteration has ended.
C2_Witness ==
    /\ variant = "strict"
    /\ WellFormedStream(input) /\ ~Terminated(input)
    /\ NGroups(input) = 2
    /\ Len(out) = 3
    /\ out[1].kind = "Ok" /\ StrictDesc(out[1].rec) # None
    /\ out[2].kind = "Ok" /\ StrictDesc(out[2].rec) = None
    /\ out[3] = NoneItem

\* C3: no next() call of either iterator faults, whatever the stream.
C3_NextNeverFaults == \A i \in 1..Len(out) : out[i].kind # "Panic"

\* The stream from cursor p on.
Rest(s, p) == SubSeq(s, p + 1, Len(s))

CountNL(x) == Cardinality({i \in 1..Len(x) : x[i] = NL})

\* The bytes consumed by a step are exactly one line (terminated, or cut by the
\* end of the stream).
ConsumedOneLine ==
    /\ pos' > pos
    /\ CountNL(SubSeq(input, pos + 1, pos' - 1)) = 0
    /\ input[pos'] = NL \/ pos' = Len(input)

IsFatal(it) == it.kind = "Err" /\ it.err \in {"MissingStartMarker", "IncompleteRecord"}

FancyErrorKinds == {"NoAt", "NoPlus", "Incomplete", "LengthMismatch", "Io"}

\* C5: an error item does not end the descriptive iteration, and a call depends
\* on nothing but the stream from the cursor on: the call after an error yields
\* what a fresh reader on the rest of the stream yields first (not None while
\* bytes remain); a LengthMismatch call has consumed exactly the four lines of
\* its record, a MissingStartMarker call exactly one byte.
C5_FancyCallsIndependent ==
    [][(variant = "fancy" /\ out' # out) =>
          /\ item'.kind = "NoAt" => pos' = pos + 1 /\ item'.byte = input[pos + 1]
          /\ item'.kind = "LengthMismatch" =>
                 /\ CountNL(SubSeq(input, pos + 1, pos')) = 4
                 /\ input[pos'] = NL
          /\ item.kind \in FancyErrorKinds =>
                 /\ pos < Len(input) => item'.kind # "None"
                 /\ \E o \in FastqReaderNext(Rest(input, pos), 0) :
                        o.item = item' /\ o.pos = pos' - pos]_vars

\* A LengthMismatch has been followed by the Ok record that comes next in the
\* stream.
C5_Witness ==
    /\ variant = "fancy"
    /\ Len(out) = 2
    /\ out[1].kind = "LengthMismatch"
    /\ out[2].kind = "Ok"
    /\ pos = Len(input)

\* C6: either iterator returns None only with the cursor at the end of the
\* stream, and after a None every later call returns None.
C6_NoneOnlyAtEndAndForever ==
    \A i \in 1..Len(out) :
        out[i] = NoneItem =>
            /\ pos = Len(input)
            /\ \A j \in i..Len(out) : out[j] = NoneItem

\* A record, then None twice.
C6_Witness ==
    /\ Len(out) = 3
    /\ out[1].kind = "Ok"
    /\ out[2] = NoneItem
    /\ out[3] = NoneItem
    /\ pos = Len(input)

\* The first four lines of the stream are there, each with its terminator.
FirstGroupTerminated(s) == CountNL(s) >= 4

FirstGroup(s) == GroupAt(SplitLines(s), 1)

\* C7: a group well-formed but for a third line that does not begin with '+' is
\* a MissingSeparator error to the descriptive iterator and an Ok record, with
\* the fields of the input, to the strict iterator.
C7_WrongSeparator ==
    (FirstGroupTerminated(input) /\ WrongSepGroup(FirstGroup(input)) /\ Len(out) >= 1) =>
        IF variant = "fancy"
            THEN out[1].kind = "NoPlus"
            ELSE /\ out[1].kind = "Ok"
                 /\ RecFields("strict", out[1].rec) = Fields(FirstGroup(input))

\* Header, sequence, separator and quality line are present, terminated and not
\* empty; the lengths of sequence and quality are left open.
AllLinesPresent(s) ==
    /\ FirstGroupTerminated(s)
    /\ LET g == FirstGroup(s)
       IN  IsText(g) /\ WFHeader(g.hdr) /\ WFSeq(g.seq) /\ WFSep(g.sep)
           /\ Len(g.qual) >= 1 /\ NoWhitespace(g.qual)

\* C8: for a group with all four lines present and non-empty the descriptive
\* iterator yields Ok exactly when sequence and quality have the same length, and
\* LengthMismatch carrying both texts otherwise; every Ok record it yields has
\* len(sequence) = len(quality) >= 1.
C8_OkIffEqualLengths ==
    variant = "fancy" =>
        /\ (AllLinesPresent(input) /\ Len(out) >= 1) =>
               LET g == FirstGroup(input)
               IN  IF Len(g.seq) = Len(g.qual)
                       THEN out[1].kind = "Ok"
                       ELSE out[1] = LengthMismatch(g.seq, g.qual)
        /\ \A i \in 1..Len(out) :
               out[i].kind = "Ok" =>
                   Len(out[i].rec.seq) = Len(out[i].rec.qual) /\ Len(out[i].rec.seq) >= 1

\* The invariants of a record in their fixed order; "Ok" when none is violated.
FirstViolated(f) ==
    LET fullyEmpty == f.id = <<>> /\ f.desc = None /\ f.seq = <<>> /\ f.qual = <<>>
    IN  IF ~fullyEmpty /\ f.id = <<>> THEN "Expecting id for FastQ record."
        ELSE IF ~IsAscii(f.seq) THEN "Non-ascii character found in sequence."
        ELSE IF ~IsAscii(f.qual) THEN "Non-ascii character found in qualities."
        ELSE IF Len(f.seq) # Len(f.qual) THEN "Unequal length of sequence an qualities."
        ELSE "Ok"

\* C9: check() returns the first violated invariant in the order missing id,
\* non-ASCII sequence, non-ASCII quality, length mismatch, and success exactly
\* when none is violated.
C9_CheckReportsFirstViolated ==
    chk # "unchecked" => chk = FirstViolated(RecFields(variant, item.rec))

\* Non-empty id, ASCII sequence and quality of equal length.
ValidFields(f) ==
    f.id # <<>> /\ IsAscii(f.seq) /\ IsAscii(f.qual) /\ Len(f.seq) = Len(f.qual)

\* C10: check() on an already-valid record returns success, every time, and
\* leaves the record as it was.
C10_CheckOfValidSucceeds ==
    (chk # "unchecked" /\ ValidFields(RecFields(variant, item.rec))) =>
        chk = "Ok" /\ item = out[Len(out)]

\* C11: a stream of zero bytes yields no record and no error: every next() call
\* of either iterator returns None, and Reader::read returns Ok and leaves the
\* record empty.
C11_EmptyStreamYieldsNothing ==
    input = <<>> =>
        /\ \A i \in 1..Len(out) : out[i] = NoneItem
        /\ pos = 0
        /\ LET r == ReaderRead(input, pos, sep_line)
           IN  r.res = "Ok" /\ StrictIsEmpty(r.rec)

\* next() has been called on a reader of the empty stream.
C11_Witness == input = <<>> /\ Len(out) = 2 /\ item = NoneItem

\* The stream is exactly one line of text that begins a record: '@' first, no
\* terminator but possibly a last one.
OneHeaderLine(s) ==
    /\ Len(s) >= 1
    /\ s[1] = AT
    /\ CountNL(SubSeq(s, 1, Len(s) - 1)) = 0
    /\ Utf8Valid(s)

\* C12: a stream of exactly one line yields IncompleteRecord as the first item
\* of the variant that parses it.
C12_OneLineIsIncomplete ==
    (OneHeaderLine(input) /\ Len(out) >= 1) =>
        IF variant = "fancy"
            THEN out[1].kind = "Incomplete"
            ELSE out[1] = StrictErr("IncompleteRecord")

\* C13: a parsed record formatted back to text (strict: by Display) and parsed
\* again by the same parser gives a record with the same id, description,
\* sequence and quality.
C13_RoundTrip ==
    rt.done =>
        /\ rt.again.kind = "Ok"
        /\ RecFields("strict", rt.again.rec) = RecFields("strict", item.rec)

\* The first line of the stream is a whole header line: '@', at least one byte
\* of text, the terminator.
HeaderLineRead(s) ==
    /\ CountNL(s) >= 1
    /\ LET h == SplitLines(s)[1]
       IN  Len(h) >= 2 /\ h[1] = AT /\ Utf8Valid(h)

\* The header text of the first line, without '@'.
HeaderText(s) == LET h == SplitLines(s)[1] IN SubSeq(h, 2, Len(h))

\* The faults of the header split.
SplitPanics == {Panic("subtract with overflow"), Panic("not a char boundary")}

\* C14: the header split.  A header with a whitespace-separated trailing token
\* loses that token, and the space before it, to the description; a header
\* without whitespace is the id whole and the description is absent.
C14_HeaderSplit ==
    (variant = "fancy" /\ HeaderLineRead(input) /\ Len(out) >= 1
        /\ (out[1].kind = "Ok" \/ out[1] \in SplitPanics)) =>
        LET h == HeaderText(input)
        IN  /\ out[1].kind = "Ok"
            /\ IF NoWhitespace(h)
                   THEN out[1].rec.id = h /\ out[1].rec.desc = None
                   ELSE /\ out[1].rec.desc = LastToken(h)
                        /\ out[1].rec.desc # None =>
                               out[1].rec.id \o <<SP>> \o out[1].rec.desc[1] = h

\* Header and sequence line are whole lines of text with content.
HeaderAndSeqRead(s) ==
    /\ HeaderLineRead(s)
    /\ CountNL(s) >= 2
    /\ LET q == SplitLines(s)[2] IN Len(q) >= 1 /\ Utf8Valid(q)

\* What follows the sequence line in the stream.
AfterSeq(s) == LET ls == SplitLines(s) IN Rest(s, Len(ls[1]) + Len(ls[2]) + 2)

\* The third line, terminator included; empty when the stream has ended.
ThirdLine(s) ==
    LET a == AfterSeq(s)
        I == {i \in 1..Len(a) : a[i] = NL}
    IN  IF I = {} THEN a ELSE SubSeq(a, 1, CHOOSE i \in I : \A j \in I : i <= j)

\* C15: once header and sequence line have been read, a third line that does
\* not start with '+' -- a bare terminator and a line missing because the stream
\* has ended included -- makes next() return a MissingSeparator error value,
\* carrying the first byte of that line when there is one.
C15_MissingSeparator ==
    (variant = "fancy" /\ HeaderAndSeqRead(input) /\ Len(out) >= 1
        /\ out[1] \notin SplitPanics
        /\ Utf8Valid(ThirdLine(input))
        /\ (ThirdLine(input) = <<>> \/ ThirdLine(input)[1] # PLUS)) =>
        /\ out[1].kind = "NoPlus"
        /\ ThirdLine(input) # <<>> => out[1].byte = ThirdLine(input)[1]

\* The length of the first n lines of x, terminators included: up to the n-th
\* terminator, or all of x when it has fewer.
LinesLen(x, n) ==
    IF n = 0 THEN 0
    ELSE IF CountNL(x) < n THEN Len(x)
    ELSE CHOOSE i \in 1..Len(x) : x[i] = NL /\ CountNL(SubSeq(x, 1, i)) = n

\* The n-th line of x as read_line returns it, terminator included.
RawLine(x, n) == SubSeq(x, LinesLen(x, n - 1) + 1, LinesLen(x, n))

\* C16: Reader::read on a first line that begins with '@' reads three more
\* lines, sequence, separator and quality in this order; it returns the
\* incomplete-record error when the stream ends after one, two or three lines of
\* the record, and Ok only when all four lines were read.
C16_StrictReadsFourLines ==
    [][(variant = "strict" /\ out' # out /\ pos < Len(input) /\ input[pos + 1] = AT) =>
          LET x == Rest(input, pos)
              n == Len(SplitLines(x))
          IN  /\ (n <= 3 /\ Utf8Valid(x)) =>
                     item' = StrictErr("IncompleteRecord") /\ pos' = Len(input)
              /\ (n >= 4 /\ Utf8Valid(SubSeq(x, 1, LinesLen(x, 4)))) => item'.kind = "Ok"
              /\ item'.kind = "Ok" =>
                     /\ n >= 4
                     /\ pos' = pos + LinesLen(x, 4)
                     /\ item'.rec.header = RawLine(x, 1)
                     /\ item'.rec.seq = RawLine(x, 2)
                     /\ item'.rec.qual = RawLine(x, 4)
                     /\ sep_line' = sep_line \o RawLine(x, 3)]_vars

\* The strict iterator has yielded a record and then met a record of three
\* lines.
C16_Witness ==
    /\ variant = "strict"
    /\ Len(out) = 2
    /\ out[1].kind = "Ok"
    /\ out[2] = StrictErr("IncompleteRecord")
    /\ Len(SplitLines(input)) = 7

\* The text in front of a failure after the header line: '@' and the header line
\* as read, then the sequence or the sentinel.
PriorText(s) ==
    LET ls == SplitLines(s)
    IN  ls[1] \o <<NL>> \o (IF HeaderAndSeqRead(s) THEN ls[2] ELSE NOTHING)

\* C17: an error raised after the header line was read carries '@', the header
\* line as read (id and description), the sequence when it was read, and
\* "<nothing>" for each line still missing.
C17_ErrorContext ==
    (variant = "fancy" /\ HeaderLineRead(input) /\ Len(out) >= 1) =>
        /\ out[1].kind = "Incomplete" =>
               out[1].prev = PriorText(input) \o <<NL, PLUS, NL>> \o NOTHING
        /\ out[1].kind = "NoPlus" => out[1].prev = PriorText(input)

C19_ReaderRetainsOneRecord ==
    variant = "strict" =>
        \A i \in 1..Len(sep_line) - 1 : sep_line[i] # NL

====
